---- MODULE Spec2Model ----
(***************************************************************************)
(* The file set of the commit log (src/file_set.rs): the log directory,    *)
(* the active (Index, Segment) pair, the closed pairs keyed by starting    *)
(* offset, and the operations load_log, find and roll_segment.             *)
(*                                                                         *)
(* Index and Segment live in sibling modules (index.rs, segment.rs); only  *)
(* the interface the file set consumes is modelled: an index is            *)
(* [off, next, ro], a segment is [off, synced].                            *)
(***************************************************************************)
EXTENDS Integers, FiniteSets, Sequences, TLC

\* Largest offset a record may be appended at (caps Append).
MaxOffset == 3
\* Largest starting offset of a file found in the directory before the first load.
MaxInitOffset == 2

Offsets == 0..MaxOffset
\* The greatest value of the offset type (u64::MAX), scaled to the model: one
\* beyond everything that can be written.
U64Max == MaxOffset + 1
\* Offsets a caller may ask find for: every value of the type.
FindOffsets == 0..U64Max
\* Starting offsets of the files found in the directory before the first load.
InitOffsets == (0..MaxInitOffset) \cup {U64Max}

VARIABLES
    dirSegs,   \* starting offsets of the segment files in opts.log_dir
    dirIdx,    \* index files in opts.log_dir: starting offset -> next offset
    phase,     \* "unloaded": no FileSet value exists; "ready": one does
    active,    \* FileSet.active
    closed,    \* FileSet.closed, a function from its keys to pairs
    lastOp     \* the last call: its name, result, cause of failure, completed
               \* steps, argument

vars == <<dirSegs, dirIdx, phase, active, closed, lastOp>>

----------------------------------------------------------------------------
\* Helpers on finite sets of offsets and on maps.

Max(S) == CHOOSE m \in S : \A x \in S : x <= m

EmptyMap == [k \in {} |-> 0]

\* BTreeMap::insert: the value under an existing key is replaced.
BTreeInsert(m, k, v) == [x \in (DOMAIN m) \cup {k} |-> IF x = k THEN v ELSE m[x]]

\* BTreeMap::remove
BTreeRemove(m, k) == [x \in (DOMAIN m) \ {k} |-> m[x]]

----------------------------------------------------------------------------
\* The consumed interface of Index and Segment.

\* Index::open: the index of an existing file; opened writable.
IndexOpen(off) == [off |-> off, next |-> dirIdx[off], ro |-> FALSE]

\* Index::new: a new, empty, writable index starting at off.
IndexNew(off) == [off |-> off, next |-> off, ro |-> FALSE]

\* Index::new creates the file: it cannot succeed on a file that exists.
IndexNewCanSucceed(off) == off \notin DOMAIN dirIdx

\* Segment::open
SegmentOpen(off) == [off |-> off, synced |-> TRUE]

\* Segment::new
SegmentNew(off) == [off |-> off, synced |-> TRUE]

\* Segment::new creates the file: it cannot succeed on a file that exists.
SegmentNewCanSucceed(off) == off \notin dirSegs

\* Index::set_readonly
SetReadonly(ind) == [ind EXCEPT !.ro = TRUE]

\* Segment::flush_sync
FlushSync(seg) == [seg EXCEPT !.synced = TRUE]

\* Index::next_offset
NextOffset(ind) == ind.next

\* Index::starting_offset, Segment::starting_offset
StartingOffset(x) == x.off

Pair(ind, seg) == [ind |-> ind, seg |-> seg]

\* The value of `active` while no FileSet exists.
NoPair == Pair([off |-> 0, next |-> 0, ro |-> FALSE], [off |-> 0, synced |-> TRUE])

\* cause: "io" when a call failed on an I/O fault, "exists" when a create-new
\* found its file, "overflow" for an arithmetic overflow, else "none".
Op(name, result, cause, steps, offset, found) ==
    [op |-> name, result |-> result, cause |-> cause, steps |-> steps,
     offset |-> offset, found |-> found]

----------------------------------------------------------------------------
\* The directory before the first load: any set of segment files and of
\* index files, an index file holding entries up to its next offset.

Init ==
    /\ dirSegs \in SUBSET InitOffsets
    /\ \E I \in SUBSET InitOffsets :
          /\ dirIdx \in [I -> 0..U64Max]
          /\ \A o \in I : dirIdx[o] \in {o, o + 1} /\ (o = U64Max => dirIdx[o] = o)
    /\ phase = "unloaded"
    /\ active = NoPair
    /\ closed = EmptyMap
    /\ lastOp = Op("none", "Ok", "none", <<>>, 0, {})

----------------------------------------------------------------------------
\* load_log

\* Mutant of PairUp: segments and indexes zipped in key order, the k-th
\* segment with the k-th index.
PairUpZip(segs) ==
    [i \in segs |->
       Pair(IndexOpen(CHOOSE j \in DOMAIN dirIdx :
                        Cardinality({t \in DOMAIN dirIdx : t < j}) =
                        Cardinality({t \in segs : t < i})),
            SegmentOpen(i))]

\* Lines 58-69: every segment paired with the index of the same starting offset.
PairUp(segs) == [i \in segs |-> Pair(IndexOpen(i), SegmentOpen(i))]

\* Line 65: a segment without an index.
NoIndexForSegment == \E i \in dirSegs : i \notin DOMAIN dirIdx

\* Mutant of LastEntry: the first key, keys().next(), taken for the last.
FirstEntry(m) ==
    IF DOMAIN m = {} THEN {} ELSE {CHOOSE k \in DOMAIN m : \A x \in DOMAIN m : k <= x}

\* Line 73: closed.keys().next_back(), an Option as a set of at most one key.
LastEntry(m) == IF DOMAIN m = {} THEN {} ELSE {Max(DOMAIN m)}

\* Mutant of LoadRemoveActive: the active pair read with get(), left in closed.
LoadKeepActive(m, off) == m

\* Line 77: closed.remove(&off) leaves the other pairs in closed.
LoadRemoveActive(m, off) == BTreeRemove(m, off)

\* Mutant of MarkClosedReadonly: the loop left out.
MarkClosedUntouched(m) == m

\* Lines 88-90: every index left in closed is marked read-only.
MarkClosedReadonly(m) == [k \in DOMAIN m |-> [m[k] EXCEPT !.ind = SetReadonly(@)]]

\* Mutant of LoadStartOffset: the first pair numbered from one.
LoadStartOffsetOne == 0 + 1

\* Lines 81-82: the first pair of a log starts at offset 0.
LoadStartOffset == 0

LoadEnd(result, cause, steps, act, cl, segs, idx) ==
    [result |-> result, cause |-> cause, steps |-> steps, active |-> act,
     closed |-> cl, segs |-> segs, idx |-> idx]

\* Mutant of LoadMissingIndex: the missing index reported as an error value.
LoadMissingIndexErr ==
    LoadEnd("Err", "none", <<"read_dir", "open">>, NoPair, EmptyMap, dirSegs, dirIdx)

\* Lines 63-66: panic!, after the scan and before anything else is done.
LoadMissingIndex ==
    LoadEnd("Panic", "none", <<"read_dir", "open">>, NoPair, EmptyMap, dirSegs, dirIdx)

LoadFaults == {"none", "read_dir", "open", "index_new", "segment_new", "set_readonly"}

\* What load_log does on the directory when the I/O call named by fault fails
\* (if it is reached): the result, the FileSet built and the directory left.
LoadOutcome(fault) ==
    LET Err(cause, steps, idx) ==
            LoadEnd("Err", cause, steps, NoPair, EmptyMap, dirSegs, idx)
        Why(io) == IF io THEN "io" ELSE "exists"
        scanned == <<"read_dir", "open">>
    IN  IF fault = "read_dir" THEN Err("io", <<>>, dirIdx)
        ELSE IF fault = "open" /\ dirSegs \cup DOMAIN dirIdx # {}
        THEN Err("io", <<"read_dir">>, dirIdx)
        ELSE IF NoIndexForSegment THEN LoadMissingIndex
        ELSE
        LET paired == PairUp(dirSegs)
            last_entry == LastEntry(paired)
        IN  IF last_entry # {}
            THEN LET off == CHOOSE o \in last_entry : TRUE
                     rest == LoadRemoveActive(paired, off)
                     steps == scanned \o <<"pair", "reuse">>
                 IN  IF fault = "set_readonly" /\ DOMAIN rest # {}
                     THEN Err("io", steps, dirIdx)
                     ELSE LoadEnd("Ok", "none", steps \o <<"mark_closed">>, paired[off],
                                  MarkClosedReadonly(rest), dirSegs, dirIdx)
            ELSE LET steps == scanned \o <<"pair">>
                     off == LoadStartOffset
                     withIdx == BTreeInsert(dirIdx, off, off)
                 IN  IF fault = "index_new" \/ ~IndexNewCanSucceed(off)
                     THEN Err(Why(fault = "index_new"), steps, dirIdx)
                     ELSE IF fault = "segment_new" \/ ~SegmentNewCanSucceed(off)
                     THEN Err(Why(fault = "segment_new"), steps \o <<"index_new">>, withIdx)
                     ELSE LoadEnd("Ok", "none",
                                  steps \o <<"index_new", "segment_new", "mark_closed">>,
                                  Pair(IndexNew(off), SegmentNew(off)), EmptyMap,
                                  dirSegs \cup {off}, withIdx)

\* FileSet::load_log(opts). A call while a FileSet exists is a restart of the
\* program on the same directory: the old value is dropped.
LoadLog(fault) ==
    LET r == LoadOutcome(fault)
    IN  /\ phase' = IF r.result = "Ok" THEN "ready" ELSE "unloaded"
        /\ active' = r.active
        /\ closed' = r.closed
        /\ dirSegs' = r.segs
        /\ dirIdx' = r.idx
        /\ lastOp' = Op("load_log", r.result, r.cause, r.steps, 0, {})

----------------------------------------------------------------------------
\* find

\* Mutant of ClosedRange: range(..offset), one key short.
ClosedRangeShort(m, end) == {k \in DOMAIN m : k + 1 < end}

\* Line 118: closed.range(..end), the keys below end.
ClosedRange(m, end) == {k \in DOMAIN m : k < end}

\* Mutant of FindInActive: > for >=.
FindInActiveStrict(offset) == offset > StartingOffset(active.ind)

\* Lines 112-113: the offset is at or beyond the start of the active pair.
FindInActive(offset) == offset >= StartingOffset(active.ind)

\* Line 118: offset + 1 in the offset type; a build without overflow checks
\* wraps.
U64Add(a, b) == (a + b) % (U64Max + 1)

\* Line 118: offset + 1 is evaluated, in the else branch only, and does not
\* fit the type; a build with overflow checks panics there.
FindOverflows(offset) == ~FindInActive(offset) /\ offset + 1 > U64Max

\* Lines 111-120: the pair responsible for offset, an Option as a set of at
\* most one reference; a reference names the slot it points into.
find(offset) ==
    IF FindInActive(offset)
    THEN {[slot |-> "active", pair |-> active]}
    ELSE LET r == ClosedRange(closed, U64Add(offset, 1))
         IN  IF r = {} THEN {} ELSE {[slot |-> "closed", pair |-> closed[Max(r)]]}

\* Mutant of Find: the closed pair found is taken out of the collection.
FindTakes(offset) ==
    /\ phase = "ready"
    /\ lastOp' = Op("find", IF find(offset) = {} THEN "None" ELSE "Some", "none",
                    <<>>, offset, find(offset))
    /\ closed' = [k \in DOMAIN closed \
                       {StartingOffset(r.pair.seg) : r \in {q \in find(offset) : q.slot = "closed"}}
                    |-> closed[k]]
    /\ UNCHANGED <<dirSegs, dirIdx, phase, active>>

\* A caller's find(offset) on the FileSet; where offset + 1 overflows the
\* call panics or goes on with the wrapped value, as the build decides.
Find(offset) ==
    /\ phase = "ready"
    /\ \E panics \in {FALSE, FindOverflows(offset)} :
          lastOp' = IF panics
                    THEN Op("find", "Panic", "overflow", <<>>, offset, {})
                    ELSE Op("find", IF find(offset) = {} THEN "None" ELSE "Some",
                            IF FindOverflows(offset) THEN "overflow" ELSE "none",
                            <<>>, offset, find(offset))
    /\ UNCHANGED <<dirSegs, dirIdx, phase, active, closed>>

----------------------------------------------------------------------------
\* Appending through active_index_mut / active_segment_mut

\* Lines 99-105: the caller appends one record to the active pair: the index
\* takes the entry (its file is a shared mapping), the segment buffers the bytes.
AppendRecord ==
    /\ phase = "ready"
    /\ ~active.ind.ro
    /\ NextOffset(active.ind) < MaxOffset
    /\ active' = [active EXCEPT !.ind.next = @ + 1, !.seg.synced = FALSE]
    /\ dirIdx' = [dirIdx EXCEPT ![StartingOffset(active.ind)] = NextOffset(active.ind) + 1]
    /\ lastOp' = Op("append", "Ok", "none", <<>>, NextOffset(active.ind), {})
    /\ UNCHANGED <<dirSegs, phase, closed>>

----------------------------------------------------------------------------
\* roll_segment

\* Mutant of RollRetire: the retired pair keyed by its index's next offset.
RollRetireAtNext(cl, p) == BTreeInsert(cl, NextOffset(p.ind), p)

\* Line 137: the retired pair goes into closed under its segment's starting offset.
RollRetire(cl, p) == BTreeInsert(cl, StartingOffset(p.seg), p)

\* Mutant of RollSetReadonly: the call left out.
RollSkipReadonly(p) == p

\* Line 123
RollSetReadonly(p) == [p EXCEPT !.ind = SetReadonly(@)]

\* Mutant of RollFlush: the call left out.
RollSkipFlush(p) == p

\* Line 124
RollFlush(p) == [p EXCEPT !.seg = FlushSync(@)]

\* Mutant of RollNextOffset: one past the index's next offset.
RollNextOffsetOff(p) == NextOffset(p.ind) + 1

\* Line 126
RollNextOffset(p) == NextOffset(p.ind)

RollFaults == {"none", "set_readonly", "flush_sync", "segment_new", "index_new"}
RollCrashPoints == {"set_readonly", "flush_sync", "segment_new", "index_new"}

RollEnd(result, cause, steps, act, cl, segs, idx) ==
    [result |-> result, cause |-> cause, steps |-> steps, active |-> act,
     closed |-> cl, segs |-> segs, idx |-> idx]

\* The calls of roll_segment in the order of lines 123-137.
RollSteps ==
    <<"set_readonly", "flush_sync", "next_offset", "segment_new", "index_new",
      "swap", "insert">>

\* The state of a roll between two of its calls: whether it has ended, how,
\* the steps done and the outgoing pair.
RollMid(stop, end, steps, pair) ==
    [stop |-> stop, end |-> end, steps |-> steps, pair |-> pair]

\* Mutant of RollHead: the segment flushed before the index is marked.
RollHeadFlushFirst(fault, crash) ==
    LET a1 == RollFlush(active)
        a2 == RollSetReadonly(a1)
        s1 == <<"flush_sync">>
        s2 == s1 \o <<"set_readonly">>
        Stop(result, cause, steps, act, cl) ==
            RollMid(TRUE, RollEnd(result, cause, steps, act, cl, dirSegs, dirIdx),
                    steps, act)
    IN  IF fault = "flush_sync" THEN Stop("Err", "io", <<>>, active, closed)
        ELSE IF crash = "flush_sync" THEN Stop("Crash", "none", s1, NoPair, EmptyMap)
        ELSE IF fault = "set_readonly" THEN Stop("Err", "io", s1, a1, closed)
        ELSE IF crash = "set_readonly" THEN Stop("Crash", "none", s2, NoPair, EmptyMap)
        ELSE RollMid(FALSE, RollEnd("Ok", "none", s2, a2, closed, dirSegs, dirIdx), s2, a2)

\* Lines 123-124: the active index is marked read-only, then the active
\* segment is flushed; either call may fail, the process may die after either.
RollHead(fault, crash) ==
    LET a1 == RollSetReadonly(active)
        a2 == RollFlush(a1)
        s1 == <<"set_readonly">>
        s2 == s1 \o <<"flush_sync">>
        Stop(result, cause, steps, act, cl) ==
            RollMid(TRUE, RollEnd(result, cause, steps, act, cl, dirSegs, dirIdx),
                    steps, act)
    IN  IF fault = "set_readonly" THEN Stop("Err", "io", <<>>, active, closed)
        ELSE IF crash = "set_readonly" THEN Stop("Crash", "none", s1, NoPair, EmptyMap)
        ELSE IF fault = "flush_sync" THEN Stop("Err", "io", s1, a1, closed)
        ELSE IF crash = "flush_sync" THEN Stop("Crash", "none", s2, NoPair, EmptyMap)
        ELSE RollMid(FALSE, RollEnd("Ok", "none", s2, a2, closed, dirSegs, dirIdx), s2, a2)

\* Lines 122-139, step by step: the I/O call named by fault fails (if it is
\* reached), or the process dies right after the call named by crash.
RollOutcome(fault, crash) ==
    LET head == RollHead(fault, crash)
        Crash(steps, segs, idx) ==
            RollEnd("Crash", "none", steps, NoPair, EmptyMap, segs, idx)
        Why(io) == IF io THEN "io" ELSE "exists"
        a2 == head.pair
        next_offset == RollNextOffset(a2)
        segs1 == dirSegs \cup {next_offset}
        idx1 == BTreeInsert(dirIdx, next_offset, next_offset)
        p == Pair(IndexNew(next_offset), SegmentNew(next_offset))
        s3 == head.steps \o <<"next_offset">>
        s4 == s3 \o <<"segment_new">>
        s5 == s4 \o <<"index_new">>
    IN  IF head.stop THEN head.end
        ELSE IF fault = "segment_new" \/ ~SegmentNewCanSucceed(next_offset)
        THEN RollEnd("Err", Why(fault = "segment_new"), s3, a2, closed, dirSegs, dirIdx)
        ELSE IF crash = "segment_new" THEN Crash(s4, segs1, dirIdx)
        ELSE IF fault = "index_new" \/ ~IndexNewCanSucceed(next_offset)
        THEN RollEnd("Err", Why(fault = "index_new"), s4, a2, closed, segs1, dirIdx)
        ELSE IF crash = "index_new" THEN Crash(s5, segs1, idx1)
        ELSE RollEnd("Ok", "none", s5 \o <<"swap", "insert">>, p, RollRetire(closed, a2),
                     segs1, idx1)

RollApply(r) ==
    /\ phase' = IF r.result = "Crash" THEN "unloaded" ELSE "ready"
    /\ active' = r.active
    /\ closed' = r.closed
    /\ dirSegs' = r.segs
    /\ dirIdx' = r.idx
    /\ lastOp' = Op("roll_segment", r.result, r.cause, r.steps,
                    StartingOffset(active.ind), {})

\* FileSet::roll_segment(&mut self), returning Ok or Err.
RollSegment(fault) ==
    /\ phase = "ready"
    /\ RollApply(RollOutcome(fault, "none"))

\* roll_segment cut short by the death of the process after one of its calls.
RollSegmentCrash(crash) ==
    /\ phase = "ready"
    /\ RollOutcome("none", crash).result = "Crash"
    /\ RollApply(RollOutcome("none", crash))

----------------------------------------------------------------------------

Next ==
    \/ \E fault \in LoadFaults : LoadLog(fault)
    \/ \E offset \in FindOffsets : Find(offset)
    \/ AppendRecord
    \/ \E fault \in RollFaults : RollSegment(fault)
    \/ \E crash \in RollCrashPoints : RollSegmentCrash(crash)

Spec == Init /\ [][Next]_vars

----------------------------------------------------------------------------
\* Properties of the file set.

Ready == phase = "ready"
Did(op, result) == lastOp.op = op /\ lastOp.result = result
Done(op, result) == lastOp'.op = op /\ lastOp'.result = result
Has(steps, name) == \E i \in DOMAIN steps : steps[i] = name
\* A step inside the life of one FileSet value (not a new load).
SameFileSet == phase = "ready" /\ phase' = "ready" /\ lastOp'.op # "load_log"

\* C1 (P6): in every state of a FileSet, after load_log and after any
\* roll_segment calls, failed ones and ones on an active pair nothing was
\* appended to included, no key of closed equals the starting offset of the
\* active pair.
C1_ActiveNotInClosed ==
    Ready => /\ StartingOffset(active.ind) \notin DOMAIN closed
             /\ StartingOffset(active.seg) \notin DOMAIN closed

\* roll_segment was called on an active pair nothing was appended to, and
\* got as far as creating the new segment.
C1_Witness ==
    /\ Ready /\ Did("roll_segment", "Err")
    /\ Has(lastOp.steps, "next_offset")
    /\ NextOffset(active.ind) = StartingOffset(active.ind)
    /\ DOMAIN closed # {}

\* C2 (P1): find is a predecessor search over the closed keys and the active
\* starting offset: for a starting offset oi and an x at or above it with no
\* other starting offset in (oi, x], find(x) is the pair starting at oi, the
\* active pair when oi is its starting offset, written or not.
C2_FindPredecessor ==
    Ready =>
      LET starts == DOMAIN closed \cup {StartingOffset(active.ind)}
      IN  \A oi \in starts, x \in FindOffsets :
            (oi <= x /\ ~\E o \in starts : oi < o /\ o <= x) =>
               find(x) = IF oi = StartingOffset(active.ind)
                         THEN {[slot |-> "active", pair |-> active]}
                         ELSE {[slot |-> "closed", pair |-> closed[oi]]}

\* find was asked for an offset inside the range of a closed pair, below an
\* active pair that a roll created.
C2_Witness ==
    /\ Ready /\ Did("find", "Some")
    /\ StartingOffset(active.ind) > MaxInitOffset
    /\ StartingOffset(active.ind) < U64Max
    /\ Cardinality(DOMAIN closed) >= 2
    /\ \E r \in lastOp.found :
          r.slot = "closed" /\ StartingOffset(r.pair.ind) < lastOp.offset

\* C3 (P4): a successful roll_segment leaves a new active pair that starts at
\* the next_offset() of the prior active index, and the prior active pair in
\* closed under its own starting offset with its index read-only.
C3_RollMonotone ==
    [][Done("roll_segment", "Ok") =>
         /\ StartingOffset(active'.ind) = NextOffset(active.ind)
         /\ StartingOffset(active'.seg) = NextOffset(active.ind)
         /\ StartingOffset(active.seg) \in DOMAIN closed'
         /\ LET q == closed'[StartingOffset(active.seg)]
            IN  /\ StartingOffset(q.ind) = StartingOffset(active.ind)
                /\ StartingOffset(q.seg) = StartingOffset(active.seg)
                /\ NextOffset(q.ind) = NextOffset(active.ind)
                /\ q.ind.ro]_vars

\* A roll succeeded on an active pair that had records appended.
C3_Witness ==
    /\ Ready /\ Did("roll_segment", "Ok")
    /\ lastOp.offset \in DOMAIN closed
    /\ StartingOffset(active.ind) > lastOp.offset + 1

C6_ActiveIsMax ==
    Ready => \A k \in DOMAIN closed : k <= StartingOffset(active.ind)

\* A roll succeeded on a file set that already had a closed pair.
C6_Witness ==
    /\ Ready /\ Did("roll_segment", "Ok")
    /\ Cardinality(DOMAIN closed) >= 2

\* C7: in every state of a FileSet, after load_log and after every
\* roll_segment call whatever it returned, every index in closed is read-only.
C7_ClosedReadonly ==
    Ready => \A k \in DOMAIN closed : closed[k].ind.ro

\* A roll retired a pair that had been appended to, next to a closed pair
\* from the load.
C7_Witness ==
    /\ Ready /\ Did("roll_segment", "Ok")
    /\ Cardinality(DOMAIN closed) >= 2
    /\ NextOffset(closed[lastOp.offset].ind) > lastOp.offset

\* C8: in every state of a FileSet, the state a failed roll_segment leaves
\* included, the index of the active pair is not read-only.
C8_ActiveWritable ==
    Ready => ~active.ind.ro

\* C9: inside the life of a FileSet every closed pair stays, same key and
\* same pair; closed only grows by the prior active pair under its starting
\* offset, a key it did not have; a successful roll_segment adds exactly one.
C9_NeverDeleted ==
    [][SameFileSet =>
         /\ \A k \in DOMAIN closed : k \in DOMAIN closed' /\ closed'[k] = closed[k]
         /\ DOMAIN closed' # DOMAIN closed =>
               /\ lastOp'.op = "roll_segment"
               /\ StartingOffset(active.seg) \notin DOMAIN closed
               /\ DOMAIN closed' = DOMAIN closed \cup {StartingOffset(active.seg)}
         /\ Done("roll_segment", "Ok") =>
               Cardinality(DOMAIN closed') = Cardinality(DOMAIN closed) + 1]_vars

\* A roll succeeded while closed held a pair that an earlier roll retired
\* (its index holds at least two entries, more than any file of the first
\* directory).
C9_Witness ==
    /\ Ready /\ Did("roll_segment", "Ok")
    /\ \E k \in DOMAIN closed :
          k # lastOp.offset /\ NextOffset(closed[k].ind) >= k + 2

\* C10: after a roll_segment that failed or was cut short by a crash, the
\* next load_log of the directory does not end in the fatal
\* segment-without-index condition, and a file set it returns holds the pair
\* that was active before the roll.
C10_RollRecoverable ==
    [][(lastOp.op = "roll_segment" /\ lastOp.result \in {"Err", "Crash"}
         /\ lastOp'.op = "load_log") =>
         /\ lastOp'.result # "Panic"
         /\ lastOp'.result = "Ok" =>
               lastOp.offset \in DOMAIN closed' \cup {StartingOffset(active'.ind)}]_vars

\* C11: a roll_segment that returns an error leaves the file set with the
\* same pair active (same starting offset, same entries) and the same closed
\* collection; when the failure is in the creation of the new pair, the old
\* active pair is read-only and flushed.
C11_RollErrKeepsSet ==
    [][Done("roll_segment", "Err") =>
         /\ phase' = "ready"
         /\ closed' = closed
         /\ StartingOffset(active'.ind) = StartingOffset(active.ind)
         /\ StartingOffset(active'.seg) = StartingOffset(active.seg)
         /\ NextOffset(active'.ind) = NextOffset(active.ind)
         /\ Has(lastOp'.steps, "next_offset") =>
               active'.ind.ro /\ active'.seg.synced]_vars

\* Index::new failed in a roll of an active pair that had an unflushed
\* record, with a closed pair in the file set.
C11_Witness ==
    /\ Ready /\ Did("roll_segment", "Err")
    /\ Has(lastOp.steps, "segment_new")
    /\ NextOffset(active.ind) > StartingOffset(active.ind)
    /\ DOMAIN closed # {}

\* C12: find(x) is nothing exactly when x is below the starting offset of the
\* active pair and below every key of closed; a pair it returns starts at or
\* below x.
C12_FindNoneIff ==
    Ready =>
      \A x \in FindOffsets :
        /\ find(x) = {} <=>
              /\ x < StartingOffset(active.ind)
              /\ \A k \in DOMAIN closed : x < k
        /\ \A r \in find(x) : StartingOffset(r.pair.ind) <= x

\* find returned nothing on a file set that has closed pairs, all of them
\* starting above the offset.
C12_Witness ==
    /\ Ready /\ Did("find", "None")
    /\ DOMAIN closed # {}
    /\ \A k \in DOMAIN closed : lastOp.offset < k

\* C13: load_log on a directory with a segment that has no index returns no
\* file set and, no I/O fault given, no error value: it ends in the fatal
\* outcome (the one error value it can return there is the I/O error of a
\* failed read of the directory or open of a file, before the pairing); no
\* index has been marked read-only and no file created.
C13_FatalUnlessScanFails ==
    [][(NoIndexForSegment /\ lastOp'.op = "load_log") =>
         /\ lastOp'.result \in {"Panic", "Err"}
         /\ lastOp'.result = "Err" =>
               lastOp'.cause = "io" /\ ~Has(lastOp'.steps, "open")
         /\ phase' = "unloaded"
         /\ dirSegs' = dirSegs /\ dirIdx' = dirIdx
         /\ \A i \in DOMAIN lastOp'.steps :
               lastOp'.steps[i] \in {"read_dir", "open"}]_vars

\* load_log ended in the fatal outcome on a directory that also holds a
\* complete pair.
C13_Witness ==
    /\ Did("load_log", "Panic")
    /\ NoIndexForSegment
    /\ dirSegs \cap DOMAIN dirIdx # {}

\* C14: load_log on a directory in which every segment has an index succeeds
\* (no I/O fault given) and returns pairs at exactly the starting offsets of
\* the segments, or at 0 alone when there is no segment; index files without
\* a segment are no error and are in no pair.
C14_OrphanIndexDiscard ==
    [][(~NoIndexForSegment /\ lastOp'.op = "load_log" /\ lastOp'.cause # "io") =>
         /\ lastOp'.result = "Ok"
         /\ DOMAIN closed' \cup {StartingOffset(active'.ind)} =
               IF dirSegs = {} THEN {0} ELSE dirSegs
         /\ StartingOffset(active'.seg) = StartingOffset(active'.ind)
         /\ \A k \in DOMAIN closed' :
               StartingOffset(closed'[k].ind) = k /\ StartingOffset(closed'[k].seg) = k]_vars

\* The identity of the pair find returns: the slot and the starting offset.
FindId(x) == {[slot |-> r.slot, off |-> StartingOffset(r.pair.ind)] : r \in find(x)}

\* C15 (P5): find changes nothing of the file set or the directory and
\* returns what the lookup gives; no step of a FileSet other than
\* roll_segment (another find, an append) changes the pair find returns for
\* any offset, so two calls with no roll between them return the same pair.
C15_FindPure ==
    [][/\ lastOp'.op = "find" =>
            /\ active' = active /\ closed' = closed /\ phase' = phase
            /\ dirSegs' = dirSegs /\ dirIdx' = dirIdx
            /\ lastOp'.result # "Panic" => lastOp'.found = find(lastOp'.offset)
       /\ (SameFileSet /\ lastOp'.op # "roll_segment") =>
            \A x \in FindOffsets : FindId(x)' = FindId(x)]_vars

\* find returned a closed pair of a file set whose active pair has taken a
\* record since the load.
C15_Witness ==
    /\ Ready /\ Did("find", "Some")
    /\ \E r \in lastOp.found : r.slot = "closed"
    /\ ~active.seg.synced

\* s is an initial part of t.
IsPrefix(s, t) == Len(s) <= Len(t) /\ \A i \in DOMAIN s : s[i] = t[i]

\* The pair that was active when the last roll_segment began, as the step
\* left it: retired into closed, or still active.
RolledPair(ok, act, cl, off) == IF ok THEN cl[off] ELSE act

\* C16: every roll_segment runs its calls in the order set_readonly,
\* flush_sync, next_offset, Segment::new, Index::new, swap, insert, and stops
\* at the first that fails: the steps done are an initial part of that order,
\* all of it exactly when it returns Ok, and what the call has changed is what
\* those steps change, no more.
C16_RollStepOrder ==
    [][lastOp'.op = "roll_segment" =>
         LET st == lastOp'.steps
             ok == lastOp'.result = "Ok"
             new == NextOffset(active.ind)
         IN  /\ IsPrefix(st, RollSteps)
             /\ ok <=> st = RollSteps
             /\ lastOp'.result = "Err" => ~Has(st, "swap")
             /\ dirSegs' = IF Has(st, "segment_new") THEN dirSegs \cup {new} ELSE dirSegs
             /\ DOMAIN dirIdx' =
                   IF Has(st, "index_new") THEN DOMAIN dirIdx \cup {new} ELSE DOMAIN dirIdx
             /\ lastOp'.result # "Crash" =>
                   LET old == RolledPair(ok, active', closed', StartingOffset(active.seg))
                   IN  /\ old.ind.ro = (active.ind.ro \/ Has(st, "set_readonly"))
                       /\ old.seg.synced = (active.seg.synced \/ Has(st, "flush_sync"))
                       /\ active' = IF Has(st, "swap")
                                    THEN Pair(IndexNew(new), SegmentNew(new))
                                    ELSE Pair([active.ind EXCEPT !.ro = old.ind.ro],
                                              [active.seg EXCEPT !.synced = old.seg.synced])
                       /\ Has(st, "insert") <=> closed' # closed]_vars

\* A roll stopped at a failing flush_sync with a record still buffered: the
\* index is read-only, the segment unflushed, nothing created.
C16_Witness ==
    /\ Ready /\ Did("roll_segment", "Err")
    /\ lastOp.steps = <<"set_readonly">>
    /\ active.ind.ro /\ ~active.seg.synced

C18_ReloadRoundTrip ==
    [][(Ready /\ ~active.ind.ro /\ lastOp'.op = "load_log" /\ lastOp'.cause # "io") =>
         /\ lastOp'.result = "Ok"
         /\ StartingOffset(active'.ind) = StartingOffset(active.ind)
         /\ DOMAIN closed' = DOMAIN closed]_vars

\* A load returned a file set for a directory in which an earlier roll
\* retired a pair (its index holds two entries or more).
C18_Witness ==
    /\ Ready /\ Did("load_log", "Ok")
    /\ \E k \in DOMAIN closed : NextOffset(closed[k].ind) >= k + 2

\* C19: in every state of a FileSet the index and the segment of the active
\* pair start at the same offset, and every entry of closed is keyed by the
\* starting offset of its index and of its segment.
C19_PairConsistent ==
    Ready =>
      /\ StartingOffset(active.ind) = StartingOffset(active.seg)
      /\ \A k \in DOMAIN closed :
            StartingOffset(closed[k].ind) = k /\ StartingOffset(closed[k].seg) = k

\* A file set with a closed pair from the load and one from a roll, loaded
\* from a directory that also held an index file without a segment.
C19_Witness ==
    /\ Ready /\ Did("roll_segment", "Ok")
    /\ Cardinality(DOMAIN closed) >= 2
    /\ \E o \in DOMAIN dirIdx : o \notin dirSegs

\* C20: find evaluates offset + 1 only for an offset below the starting
\* offset of the active pair, so never for the greatest value of the type:
\* no find overflows or panics, and find of the greatest offset is the
\* active pair.
C20_FindNoOverflow ==
    Ready =>
      /\ \A x \in FindOffsets : ~FindOverflows(x)
      /\ find(U64Max) = {[slot |-> "active", pair |-> active]}
      /\ lastOp.op = "find" => lastOp.result # "Panic" /\ lastOp.cause = "none"

\* find was asked for the greatest offset on a file set whose active pair
\* starts at that offset, with closed pairs below.
C20_Witness ==
    /\ Ready /\ Did("find", "Some")
    /\ lastOp.offset = U64Max
    /\ StartingOffset(active.ind) = U64Max
    /\ DOMAIN closed # {}

====
